---- MODULE Spec2Model ----
(***************************************************************************)
(* cog-turner: the records route handler (GET /api/records), third          *)
(* revision: phased basic/complete responses, chunked enrichment, retrying *)
(* fetcher, process-memory cache.                                           *)
(*                                                                          *)
(* Conventions.  A JavaScript value that may be null/undefined is a         *)
(* sequence of length 0 (absent) or 1 (present): NoVal, Some(x).  Text the  *)
(* code takes apart (the "Artist - Title" field, a video URI) is a sequence *)
(* of one-character strings (resp. of URI tokens), so that split, trim and  *)
(* the regular expression are computed, not assumed.                        *)
(***************************************************************************)
EXTENDS Integers, Sequences, FiniteSets, TLC

VARIABLES scenario, token, globalStyle, clock, cache, reqs, hook

vars == <<scenario, token, globalStyle, clock, cache, reqs, hook>>

----------------------------------------------------------------------------
(* Program constants                                                        *)

CACHE_KEY == "daily_records"
CACHE_DURATION == 7 * 24 * 60 * 60 * 1000
BATCH_SIZE == 5
BATCH_DELAY == 1000
SAMPLE_LIMIT == 20
RETRIES == 3
BACKOFF_BASE == 1000
BACKOFF_CAP == 10000
TRANSPORT_RETRY_DELAY == 1000

----------------------------------------------------------------------------
(* Bounds of the model                                                      *)

\* longest upstream result list served in the "bulk" scenario
MaxResults == 21
\* longest upstream result list served in the "faults" scenario
MaxFaultLen == 2
\* longest upstream result list with repeated artists in the "bulk" scenario
MaxDupLen == 6
\* times the clock may advance
MaxTicks == 2

----------------------------------------------------------------------------
(* Values                                                                   *)

NoVal == <<>>
Some(x) == <<x>>
Has(o) == o # <<>>
Val(o) == o[1]

Min(a, b) == IF a < b THEN a ELSE b

RECURSIVE Pow2(_)
Pow2(n) == IF n = 0 THEN 1 ELSE 2 * Pow2(n - 1)

\* x || d on an optional number: undefined, null and 0 are falsy
OrNum(o, d) == IF Has(o) /\ Val(o) # 0 THEN Val(o) ELSE d

\* x || d on an optional string: undefined, null and '' are falsy
OrStr(o, d) == IF Has(o) /\ Val(o) # "" THEN Val(o) ELSE d

\* x ?? d : only undefined and null give d
Coalesce(o, d) == IF Has(o) THEN Val(o) ELSE d

\* x || null on an optional number
OrNull(o) == IF Has(o) /\ Val(o) # 0 THEN o ELSE NoVal

----------------------------------------------------------------------------
(* Text                                                                     *)

SEP == <<" ", "-", " ">>

IsPrefixAt(s, p, j) ==
    /\ j + Len(p) - 1 <= Len(s)
    /\ \A k \in 1..Len(p) : s[j + k - 1] = p[k]

\* index of the first occurrence of p in s at or after j, 0 when there is none
RECURSIVE IndexFrom(_, _, _)
IndexFrom(s, p, j) ==
    IF j + Len(p) - 1 > Len(s) THEN 0
    ELSE IF IsPrefixAt(s, p, j) THEN j
    ELSE IndexFrom(s, p, j + 1)

\* String.prototype.split(' - '): the pieces between the occurrences
RECURSIVE Split(_)
Split(s) ==
    LET j == IndexFrom(s, SEP, 1)
    IN  IF j = 0 THEN <<s>>
        ELSE <<SubSeq(s, 1, j - 1)>> \o Split(SubSeq(s, j + Len(SEP), Len(s)))

RECURSIVE TrimLeft(_)
TrimLeft(s) == IF s # <<>> /\ Head(s) = " " THEN TrimLeft(Tail(s)) ELSE s

RECURSIVE TrimRight(_)
TrimRight(s) ==
    IF s # <<>> /\ s[Len(s)] = " " THEN TrimRight(SubSeq(s, 1, Len(s) - 1)) ELSE s

\* String.prototype.trim()
Trim(s) == TrimRight(TrimLeft(s))

\* item.title.split(' - ')[0].trim(), the artist field of createBasicRecord
ArtistOf(title) == Trim(Split(title)[1])

\* mutant of ArtistKey: the key is not trimmed
ArtistKeyUntrimmed(title) == Split(title)[1]

\* item.title.split(' - ')[0].trim(), the key of artistMap
ArtistKey(title) == Trim(Split(title)[1])

\* item.title.split(' - ')[1] || item.title
TitleOf(title) ==
    LET parts == Split(title)
    IN  IF Len(parts) >= 2 /\ parts[2] # <<>> THEN parts[2] ELSE title

----------------------------------------------------------------------------
(* Upstream data: what the marketplace API can serve                        *)

LETTERS == <<"a", "b", "c", "d", "e", "f">>

\* the k-th artist name, two letters
ArtistName(k) ==
    <<LETTERS[((k - 1) \div Len(LETTERS)) + 1], LETTERS[((k - 1) % Len(LETTERS)) + 1]>>

\* the composite "Artist - Title" field in its four shapes: plain, padded before
\* the separator, padded in front with two separators, and without separator
CompositeTitle(a, v) ==
    CASE v = 0 -> ArtistName(a) \o SEP \o <<"x">>
      [] v = 1 -> ArtistName(a) \o <<" ">> \o SEP \o <<"y">>
      [] v = 2 -> <<" ">> \o ArtistName(a) \o SEP \o <<"x">> \o SEP \o <<"z">>
      [] OTHER -> ArtistName(a)

\* the i-th result of a search answer that holds d distinct artists
SearchItem(i, d) ==
    [ id          |-> i,
      title       |-> CompositeTitle(((i - 1) % d) + 1, ((i - 1) + ((i - 1) \div d)) % 4),
      year        |-> CASE i % 3 = 0 -> NoVal [] i % 3 = 1 -> Some(1999) [] OTHER -> Some(0),
      cover_image |-> IF i % 2 = 0 THEN NoVal ELSE Some("img"),
      community   |-> CASE i % 4 = 0 -> NoVal
                        [] i % 4 = 1 -> Some([have |-> Some(5), want |-> Some(2)])
                        [] i % 4 = 2 -> Some([have |-> NoVal, want |-> Some(0)])
                        [] OTHER     -> Some([have |-> Some(0), want |-> NoVal]) ]

\* a search answer of n results over d distinct artists
ResultList(n, d) == [i \in 1..n |-> SearchItem(i, d)]

\* video URIs, as tokens
URI_WATCH == <<"https://www.", "youtube.com/watch?v=", "v", "1", "&", "t">>
URI_SHORT == <<"https://", "youtu.be/", "s", "2">>
URI_OTHER == <<"https://", "vimeo.com/", "9">>

\* release-detail payloads: a watch link and full community data; an empty
\* video list and all-zero community data; no videos key and no rating; a first
\* video that is not a YouTube link and no community object
DetailPayload(k) ==
    CASE k % 4 = 1 ->
           [ videos    |-> Some(<<[uri |-> URI_WATCH]>>),
             community |-> Some([have |-> Some(7), want |-> Some(8), rating |-> Some(4)]) ]
      [] k % 4 = 2 ->
           [ videos    |-> Some(<<>>),
             community |-> Some([have |-> Some(0), want |-> Some(0), rating |-> Some(0)]) ]
      [] k % 4 = 3 ->
           [ videos    |-> NoVal,
             community |-> Some([have |-> Some(9), want |-> NoVal, rating |-> NoVal]) ]
      [] OTHER ->
           [ videos    |-> Some(<<[uri |-> URI_OTHER], [uri |-> URI_SHORT]>>),
             community |-> NoVal ]

DetailPayloads == {DetailPayload(k) : k \in 1..4}

\* marketplace-stats payloads: a lowest price, or none (nothing for sale)
PricePayload(k) == [lowest_price |-> IF k % 3 = 0 THEN NoVal ELSE Some(10 + k)]

PricePayloads == {PricePayload(k) : k \in {1, 3}}

\* HTTP exchanges: a response with a status and a body (absent when it does
\* not parse), or a transport-level failure of fetch
Http(status, body) == [kind |-> "http", status |-> status, body |-> body]
NetErr == [kind |-> "neterr", status |-> 0, body |-> NoVal]
IsOk(resp) == resp.kind = "http" /\ resp.status >= 200 /\ resp.status <= 299

----------------------------------------------------------------------------
(* Records                                                                  *)

\* the fields `discogsUrl` is built from
DiscogsUrl(id) == <<"https://www.discogs.com/release/", id>>

\* createBasicRecord(item).  `style` is not a parameter and is not declared in
\* the module: the read resolves in the global scope.  g is that binding:
\* absent (the read throws ReferenceError) or the global's value.
CreateBasicRecord(item, g) ==
    IF ~Has(g) THEN [ok |-> FALSE, err |-> "style is not defined", rec |-> NoVal]
    ELSE [ ok  |-> TRUE,
           err |-> "",
           rec |-> Some(
             [ id              |-> item.id,
               artist          |-> ArtistOf(item.title),
               title           |-> TitleOf(item.title),
               style           |-> Val(g),
               year            |-> OrNum(item.year, 0),
               image           |-> OrStr(item.cover_image, ""),
               youtubeId       |-> NoVal,
               lowestPrice     |-> NoVal,
               discogsUrl      |-> DiscogsUrl(item.id),
               communityRating |-> NoVal,
               haves           |-> IF Has(item.community)
                                   THEN Coalesce(Val(item.community).have, 0) ELSE 0,
               wants           |-> IF Has(item.community)
                                   THEN Coalesce(Val(item.community).want, 0) ELSE 0 ]) ]

\* the artistMap scan of searchDiscogsRecords: results in upstream order, the
\* first item of each trimmed artist kept; a throw of createBasicRecord ends it
RECURSIVE UniqueArtists(_, _, _, _)
UniqueArtists(results, g, seen, acc) ==
    IF results = <<>> THEN [ok |-> TRUE, err |-> "", records |-> acc]
    ELSE LET item   == Head(results)
             artist == ArtistKey(item.title)
         IN  IF artist \in seen THEN UniqueArtists(Tail(results), g, seen, acc)
             ELSE LET made == CreateBasicRecord(item, g)
                  IN  IF ~made.ok THEN [ok |-> FALSE, err |-> made.err, records |-> <<>>]
                      ELSE UniqueArtists(Tail(results), g, seen \cup {artist},
                                         Append(acc, Val(made.rec)))

\* Array.prototype.slice(a, b) on a sequence (0-based, end exclusive)
Slice(s, a, b) == SubSeq(s, a + 1, Min(b, Len(s)))

\* Array.from(artistMap.values()).slice(0, 20)
FirstUnique(records) == Slice(records, 0, SAMPLE_LIMIT)

----------------------------------------------------------------------------
(* fetchWithRetry: one invocation, stepped at its suspension points         *)

\* mutant of BackoffDelay: the exponent is one too high
BackoffDelayLate(i) == Min(BACKOFF_BASE * Pow2(i + 1), BACKOFF_CAP)

\* Math.min(1000 * Math.pow(2, i), 10000)
BackoffDelay(i) == Min(BACKOFF_BASE * Pow2(i), BACKOFF_CAP)

\* what a response is logged as: its status, 0 for a transport failure
KindOf(resp) == IF resp.kind = "http" THEN resp.status ELSE 0

Returned(resp) == Some([kind |-> "return", resp |-> resp, err |-> ""])
Thrown(err) == Some([kind |-> "throw", resp |-> NetErr, err |-> err])

\* no call issued yet
FwIdle ==
    [st |-> "idle", i |-> 0, calls |-> 0, waited |-> 0, hist |-> <<>>, result |-> NoVal]

\* entry: i = 0 and the first fetch is issued
FwStart == [FwIdle EXCEPT !.st = "fetch", !.calls = 1]

\* mutant of FwRetries: server errors are retried like 429
FwRetriesServerErrors(fw, resp) ==
    IF resp.kind = "http" THEN resp.status = 429 \/ resp.status >= 500
    ELSE fw.i # RETRIES - 1

\* whether a response makes the loop wait and go round again
FwRetries(fw, resp) ==
    IF resp.kind = "http" THEN resp.status = 429 ELSE fw.i # RETRIES - 1

\* the wait that follows a response the loop goes round on
FwWait(fw, resp) ==
    IF resp.kind = "http" THEN BackoffDelay(fw.i) ELSE TRANSPORT_RETRY_DELAY

\* the loop body once fetch settles with resp
FwOnResponse(fw, resp) ==
    LET logged == [fw EXCEPT !.hist = Append(@, KindOf(resp))]
    IN  IF FwRetries(fw, resp)
        THEN [logged EXCEPT !.st = "sleep", !.waited = @ + FwWait(fw, resp)]
        ELSE IF resp.kind = "http"
             THEN [logged EXCEPT !.st = "done", !.result = Returned(resp)]
             ELSE [logged EXCEPT !.st = "done", !.result = Thrown("fetch failed")]

\* mutant of FwOnTimer: the loop test is i <= retries
FwOnTimerOneMore(fw) ==
    IF fw.i + 1 <= RETRIES
    THEN [fw EXCEPT !.st = "fetch", !.i = @ + 1, !.calls = @ + 1]
    ELSE [fw EXCEPT !.st = "done", !.i = @ + 1, !.result = Thrown("Max retries exceeded")]

\* the backoff timer fires: i++, then the loop test
FwOnTimer(fw) ==
    IF fw.i + 1 < RETRIES
    THEN [fw EXCEPT !.st = "fetch", !.i = @ + 1, !.calls = @ + 1]
    ELSE [fw EXCEPT !.st = "done", !.i = @ + 1, !.result = Thrown("Max retries exceeded")]

----------------------------------------------------------------------------
(* The fetch helpers and processBatch                                       *)

Value(v) == [rejected |-> FALSE, val |-> v]
Rejection == [rejected |-> TRUE, val |-> NoVal]

\* mutant of FetchReleaseDetails: no try/catch around fetchWithRetry
FetchReleaseDetailsUncaught(result) ==
    IF result.kind = "throw" THEN Rejection
    ELSE IF ~IsOk(result.resp) THEN Value(NoVal)
    ELSE IF ~Has(result.resp.body) THEN Rejection
    ELSE Value(result.resp.body)

\* fetchReleaseDetails, from the outcome of its fetchWithRetry call.  The body
\* is `return response.json()` with no await: a rejection of json() settles the
\* function's promise after the try block is left, so the catch never sees it.
FetchReleaseDetails(result) ==
    IF result.kind = "throw" THEN Value(NoVal)
    ELSE IF ~IsOk(result.resp) THEN Value(NoVal)
    ELSE IF ~Has(result.resp.body) THEN Rejection
    ELSE Value(result.resp.body)

\* fetchLowestPrice, from the single response of its plain fetch
FetchLowestPrice(resp) ==
    IF resp.kind = "neterr" THEN NoVal
    ELSE IF ~IsOk(resp) THEN NoVal
    ELSE IF ~Has(resp.body) THEN NoVal
    ELSE OrNull(Val(resp.body).lowest_price)

YT_PREFIXES == {"youtube.com/watch?v=", "youtu.be/"}
STOP_TOKENS == {"&", " "}

\* [^&\s]+ from position j: the longest run without '&' or white space
RECURSIVE CaptureRun(_, _)
CaptureRun(uri, j) ==
    IF j > Len(uri) \/ uri[j] \in STOP_TOKENS THEN <<>>
    ELSE <<uri[j]>> \o CaptureRun(uri, j + 1)

\* uri.match(/(?:youtube\.com\/watch\?v=|youtu\.be\/)([^&\s]+)/)?.[1]: the
\* group of the leftmost match, absent when nothing matches
RECURSIVE MatchFrom(_, _)
MatchFrom(uri, j) ==
    IF j > Len(uri) THEN NoVal
    ELSE IF uri[j] \in YT_PREFIXES /\ CaptureRun(uri, j + 1) # <<>>
         THEN Some(CaptureRun(uri, j + 1))
    ELSE MatchFrom(uri, j + 1)

\* details?.videos?.[0]?.uri.match(...)?.[1] || null
YoutubeIdOf(details) ==
    IF ~Has(details) THEN NoVal
    ELSE IF ~Has(Val(details).videos) THEN NoVal
    ELSE IF Val(Val(details).videos) = <<>> THEN NoVal
    ELSE MatchFrom(Val(Val(details).videos)[1].uri, 1)

\* details?.community?.<field>
CommunityField(details, f) ==
    IF ~Has(details) THEN NoVal
    ELSE IF ~Has(Val(details).community) THEN NoVal
    ELSE Val(Val(details).community)[f]

\* details?.community?.rating?.average || null
RatingOf(details) == OrNull(CommunityField(details, "rating"))

\* details?.community?.have || record.haves
HavesOf(details, record) == OrNum(CommunityField(details, "have"), record.haves)

\* details?.community?.want || record.wants
WantsOf(details, record) == OrNum(CommunityField(details, "want"), record.wants)

\* the object processBatch returns for one record
Enrich(record, details, lowestPrice) ==
    [ record EXCEPT
        !.youtubeId       = YoutubeIdOf(details),
        !.lowestPrice     = lowestPrice,
        !.communityRating = RatingOf(details),
        !.haves           = HavesOf(details, record),
        !.wants           = WantsOf(details, record) ]

----------------------------------------------------------------------------
(* Scenarios: what the upstream is allowed to answer in a behaviour         *)
(*   "retry"  one result; every call may get any response, in any sequence  *)
(*   "faults" short result lists; each endpoint of each release is in one   *)
(*            condition for the whole request: the detail endpoint serving, *)
(*            refusing (500) or rate-limiting (429 on every try), the price *)
(*            endpoint serving, refusing (500) or unreachable               *)
(*   "bulk"   long result lists; every enrichment call is served, and the   *)
(*            global `style` is bound to the style the requests ask for     *)
(*   "cache"  two overlapping requests, again and again, while time passes: *)
(*            one-record samples, the search or the detail call may fail    *)
(*   "phased" two requests side by side, as the client issues its basic and *)
(*            its complete call: result lists with a repeated artist, every *)
(*            enrichment call served                                        *)

SCENARIOS == {"retry", "faults", "bulk"}

STYLES == {"Techno", "House"}

\* the style and phase query parameters a request may carry
StyleParams == {NoVal, Some(""), Some("Techno")}
PhaseParams == {NoVal, Some("basic"), Some("complete")}

\* the style parameters of request r: where requests overlap, the first asks
\* for one style and the second for the same style, the other one, or none
StyleParamsOf(sc, r) ==
    IF sc # "cache" THEN StyleParams
    ELSE IF r = 1 THEN {Some("Techno")}
    ELSE {NoVal} \cup {Some(s) : s \in STYLES}

\* <<n, d>>: a result list of n items over d distinct artists
Shapes(sc) ==
    CASE sc = "retry"  -> {<<1, 1>>}
      [] sc = "faults" -> {<<0, 1>>} \cup
                          {sh \in (1..MaxFaultLen) \X (1..MaxFaultLen) : sh[2] <= sh[1]}
      [] sc = "cache"  -> {<<1, 1>>}
      [] sc = "phased" -> {<<2, 1>>, <<3, 2>>, <<4, 3>>}
      [] OTHER         -> {<<n, n>> : n \in 1..MaxResults} \cup
                          {<<n, (n + 1) \div 2>> : n \in 2..MaxDupLen}

\* what the free identifier `style` of createBasicRecord may resolve to
GlobalStyles(sc) ==
    IF sc \in {"bulk", "cache", "phased"} THEN {Some("Techno")}
    ELSE {NoVal} \cup {Some(s) : s \in STYLES}

SearchResponses(sc) ==
    ( IF sc = "cache" THEN {Http(500, NoVal)}
      ELSE {NetErr, Http(429, NoVal), Http(500, NoVal), Http(200, NoVal),
            Http(200, Some([results |-> NoVal]))} ) \cup
    {Http(200, Some([results |-> Some(ResultList(sh[1], sh[2]))])) : sh \in Shapes(sc)}

DetailResponses(sc, id, hist) ==
    CASE sc = "retry" ->
           {NetErr, Http(429, NoVal), Http(500, NoVal), Http(200, NoVal)} \cup
           {Http(200, Some(p)) : p \in DetailPayloads}
      [] sc = "faults" ->
           IF hist = <<>>
           THEN {Http(429, NoVal), Http(500, NoVal), Http(200, Some(DetailPayload(id)))}
           ELSE {Http(429, NoVal)}
      [] sc = "cache" -> {Http(500, NoVal), Http(200, Some(DetailPayload(id)))}
      [] OTHER -> {Http(200, Some(DetailPayload(id)))}

PriceResponses(sc, id) ==
    CASE sc = "retry" ->
           {NetErr, Http(429, NoVal), Http(500, NoVal), Http(200, NoVal)} \cup
           {Http(200, Some(p)) : p \in PricePayloads}
      [] sc = "faults" ->
           {NetErr, Http(500, NoVal), Http(200, Some(PricePayload(id)))}
      [] OTHER -> {Http(200, Some(PricePayload(id)))}

----------------------------------------------------------------------------
(* State                                                                    *)

REQUESTS == {1}

CacheKeyOf(style) == <<CACHE_KEY, style>>
CacheKeys == {CacheKeyOf(s) : s \in STYLES}

ItemIdle == [det |-> FwIdle, price |-> [st |-> "idle", calls |-> 0, resp |-> NoVal]]

ReqIdle ==
    [ pc          |-> "idle",
      style       |-> NoVal,
      phase       |-> "",
      now         |-> 0,
      searchCalls |-> 0,
      searchResp  |-> NoVal,
      sampled     |-> FALSE,
      basic       |-> <<>>,
      i           |-> 0,
      items       |-> <<>>,
      processed   |-> <<>>,
      delays      |-> 0,
      wrote       |-> FALSE,
      resp        |-> NoVal ]

\* NextResponse.json(body, {status})
Reply(status, records, isComplete, error) ==
    Some([status |-> status, records |-> records, isComplete |-> isComplete,
          error |-> error])

\* useRecords before its component has mounted
HookIdle ==
    [ style      |-> NoVal,
      selections |-> 0,
      records    |-> <<>>,
      isLoading  |-> FALSE,
      error      |-> NoVal,
      storage    |-> NoVal,
      effects    |-> <<>> ]

Init ==
    /\ hook = HookIdle
    /\ scenario \in SCENARIOS
    /\ token \in {NoVal, Some("tok")}
    /\ globalStyle \in GlobalStyles(scenario)
    /\ clock = 0
    /\ cache = [k \in CacheKeys |-> NoVal]
    /\ reqs = [r \in REQUESTS |-> ReqIdle]

----------------------------------------------------------------------------
(* searchDiscogsRecords and GET                                             *)

\* mutant of IsFresh: an entry exactly CACHE_DURATION old is still served
IsFreshInclusive(entry, now) ==
    Has(entry) /\ now - Val(entry).timestamp <= CACHE_DURATION

\* cache[cacheKey] && (now - cache[cacheKey].timestamp) < CACHE_DURATION
IsFresh(entry, now) == Has(entry) /\ now - Val(entry).timestamp < CACHE_DURATION

\* !style, !DISCOGS_TOKEN
Falsy(o) == ~Has(o) \/ Val(o) = ""

\* `Discogs API error: ${response.status}`
ApiError(status) == "Discogs API error: " \o ToString(status)

\* searchDiscogsRecords after its fetch settles with resp: the records it
\* returns, or the error it throws
SearchOutcome(resp, g) ==
    IF resp.kind = "neterr" THEN [ok |-> FALSE, err |-> "fetch failed", records |-> <<>>]
    ELSE IF ~IsOk(resp) THEN [ok |-> FALSE, err |-> ApiError(resp.status), records |-> <<>>]
    ELSE IF ~Has(resp.body)
         THEN [ok |-> FALSE, err |-> "Unexpected token in JSON", records |-> <<>>]
    ELSE IF ~Has(Val(resp.body).results) \/ Val(Val(resp.body).results) = <<>>
         THEN [ok |-> FALSE, err |-> "No results found", records |-> <<>>]
    ELSE LET scan == UniqueArtists(Val(Val(resp.body).results), g, {}, <<>>)
         IN  IF ~scan.ok THEN scan
             ELSE [ok |-> TRUE, err |-> "", records |-> FirstUnique(scan.records)]

\* the catch of GET: status 500 with the error's message
Fail(rq, err) == [rq EXCEPT !.pc = "done", !.resp = Reply(500, <<>>, FALSE, err)]

\* basicRecords.slice(i, i + BATCH_SIZE)
BatchSlice(records, i) == Slice(records, i, i + BATCH_SIZE)

\* the positions in the sample of the batch that starts at loop index i
BatchIndexes(rq) == (rq.i + 1)..(rq.i + Len(BatchSlice(rq.basic, rq.i)))

\* processBatch(batch) is called: every record's two calls are issued
StartBatch(rq) ==
    [rq EXCEPT !.pc = "chunk",
               !.items = [k \in DOMAIN rq.items |->
                            IF k \in BatchIndexes(rq)
                            THEN [det   |-> FwStart,
                                  price |-> [st |-> "fetch", calls |-> 1, resp |-> NoVal]]
                            ELSE rq.items[k]]]

\* the cache write and the response that end the complete phase
Finish(rq) ==
    [rq EXCEPT !.pc = "done", !.wrote = TRUE,
               !.resp = Reply(200, rq.processed, TRUE, "")]

\* the test of the for loop at index rq.i
LoopTest(rq) == IF rq.i < Len(rq.basic) THEN StartBatch(rq) ELSE Finish(rq)

\* what the two helpers of one record have settled with
DetailsOfItem(item) == FetchReleaseDetails(Val(item.det.result))
PriceOfItem(item) == FetchLowestPrice(Val(item.price.resp))

ItemRejected(item) == item.det.st = "done" /\ DetailsOfItem(item).rejected
ItemSettled(item) == item.det.st = "done" /\ item.price.st = "done"

\* mutant of BatchResults: the objects come in the reverse of the batch order
BatchResultsReversed(rq) ==
    LET batch == BatchSlice(rq.basic, rq.i)
    IN  [j \in 1..Len(batch) |->
           Enrich(batch[Len(batch) + 1 - j],
                  DetailsOfItem(rq.items[rq.i + Len(batch) + 1 - j]).val,
                  PriceOfItem(rq.items[rq.i + Len(batch) + 1 - j]))]

\* the array processBatch resolves with: one object per record of the batch,
\* at the record's position
BatchResults(rq) ==
    LET batch == BatchSlice(rq.basic, rq.i)
    IN  [j \in 1..Len(batch) |->
           Enrich(batch[j], DetailsOfItem(rq.items[rq.i + j]).val,
                  PriceOfItem(rq.items[rq.i + j]))]

\* mutant of AfterSettle: the delay is also taken after the last batch
AfterSettleDelayAlways(rq) ==
    IF \E k \in BatchIndexes(rq) : ItemRejected(rq.items[k])
    THEN Fail(rq, "Unexpected token in JSON")
    ELSE IF \A k \in BatchIndexes(rq) : ItemSettled(rq.items[k])
    THEN [rq EXCEPT !.processed = @ \o BatchResults(rq), !.pc = "delay", !.delays = @ + 1]
    ELSE rq

\* GET after a call of the running batch has settled: processBatch rejects
\* with the first rejection, resolves once every record is settled, and the
\* loop body goes on from there
AfterSettle(rq) ==
    IF \E k \in BatchIndexes(rq) : ItemRejected(rq.items[k])
    THEN Fail(rq, "Unexpected token in JSON")
    ELSE IF \A k \in BatchIndexes(rq) : ItemSettled(rq.items[k])
    THEN LET pushed == [rq EXCEPT !.processed = @ \o BatchResults(rq)]
         IN  IF rq.i + BATCH_SIZE < Len(rq.basic)
             THEN [pushed EXCEPT !.pc = "delay", !.delays = @ + 1]
             ELSE Finish(pushed)
    ELSE rq

\* mutant of AfterSearch: the basic phase goes on to enrich its sample
AfterSearchAlwaysEnrich(rq, out) ==
    IF ~out.ok THEN Fail(rq, out.err)
    ELSE LoopTest([rq EXCEPT !.sampled = TRUE, !.basic = out.records,
                             !.items = [k \in 1..Len(out.records) |-> ItemIdle]])

\* GET after searchDiscogsRecords has settled
AfterSearch(rq, out) ==
    IF ~out.ok THEN Fail(rq, out.err)
    ELSE IF rq.phase = "basic"
    THEN [rq EXCEPT !.pc = "done", !.sampled = TRUE, !.basic = out.records,
                    !.resp = Reply(200, out.records, FALSE, "")]
    ELSE LoopTest([rq EXCEPT !.sampled = TRUE, !.basic = out.records,
                             !.items = [k \in 1..Len(out.records) |-> ItemIdle]])

\* mutant of GetEntry: the token is not looked at
GetEntryNoTokenCheck(rq) ==
    IF Falsy(rq.style)
    THEN [rq EXCEPT !.pc = "done",
                    !.resp = Reply(400, <<>>, FALSE, "Style parameter is required")]
    ELSE IF IsFresh(cache[CacheKeyOf(Val(rq.style))], rq.now)
    THEN [rq EXCEPT !.pc = "done",
                    !.resp = Reply(200, Val(cache[CacheKeyOf(Val(rq.style))]).records,
                                   TRUE, "")]
    ELSE [rq EXCEPT !.pc = "search", !.searchCalls = 1]

\* mutant of GetEntry: the token is looked at before the style parameter
GetEntryTokenFirst(rq) ==
    IF Falsy(token) THEN Fail(rq, "Discogs token is not configured")
    ELSE IF Falsy(rq.style)
    THEN [rq EXCEPT !.pc = "done",
                    !.resp = Reply(400, <<>>, FALSE, "Style parameter is required")]
    ELSE IF IsFresh(cache[CacheKeyOf(Val(rq.style))], rq.now)
    THEN [rq EXCEPT !.pc = "done",
                    !.resp = Reply(200, Val(cache[CacheKeyOf(Val(rq.style))]).records,
                                   TRUE, "")]
    ELSE [rq EXCEPT !.pc = "search", !.searchCalls = 1]

\* GET up to its first await
GetEntry(rq) ==
    IF Falsy(rq.style)
    THEN [rq EXCEPT !.pc = "done",
                    !.resp = Reply(400, <<>>, FALSE, "Style parameter is required")]
    ELSE IF IsFresh(cache[CacheKeyOf(Val(rq.style))], rq.now)
    THEN [rq EXCEPT !.pc = "done",
                    !.resp = Reply(200, Val(cache[CacheKeyOf(Val(rq.style))]).records,
                                   TRUE, "")]
    ELSE IF Falsy(token) THEN Fail(rq, "Discogs token is not configured")
    ELSE [rq EXCEPT !.pc = "search", !.searchCalls = 1]

\* mutant of CacheAfter: the records are added to those of the entry in place
CacheAfterMerge(old, new) ==
    IF new.wrote /\ ~old.wrote
    THEN [cache EXCEPT ![CacheKeyOf(Val(new.style))] =
             Some([timestamp |-> new.now,
                   records   |-> (IF Has(@) THEN Val(@).records ELSE <<>>) \o new.processed])]
    ELSE cache

\* mutant of CacheAfter: every response that follows an upstream call is cached
CacheAfterAnyEnd(old, new) ==
    IF new.pc = "done" /\ old.pc # "done"
    THEN [cache EXCEPT ![CacheKeyOf(Val(new.style))] =
             Some([timestamp |-> new.now, records |-> Val(new.resp).records])]
    ELSE cache

\* cache[cacheKey] = { timestamp: now, records: processedRecords }
CacheAfter(old, new) ==
    IF new.wrote /\ ~old.wrote
    THEN [cache EXCEPT ![CacheKeyOf(Val(new.style))] =
             Some([timestamp |-> new.now, records |-> new.processed])]
    ELSE cache

----------------------------------------------------------------------------
(* Actions                                                                  *)

\* a request arrives
GetStart(r) ==
    /\ reqs[r].pc = "idle"
    /\ \E sp \in StyleParamsOf(scenario, r), pp \in PhaseParams :
         reqs' = [reqs EXCEPT ![r] =
                    GetEntry([reqs[r] EXCEPT !.style = sp, !.phase = OrStr(pp, "basic"),
                                             !.now = clock])]
    /\ UNCHANGED <<hook, scenario, token, globalStyle, clock, cache>>

\* the search call settles
SearchRespond(r) ==
    /\ reqs[r].pc = "search"
    /\ \E resp \in SearchResponses(scenario) :
         LET heard == [reqs[r] EXCEPT !.searchResp = Some(resp)]
             new   == AfterSearch(heard, SearchOutcome(resp, globalStyle))
         IN  /\ reqs' = [reqs EXCEPT ![r] = new]
             /\ cache' = CacheAfter(reqs[r], new)
    /\ UNCHANGED <<hook, scenario, token, globalStyle, clock>>

\* the release-detail fetch of record k settles
DetailRespond(r, k) ==
    /\ reqs[r].pc = "chunk"
    /\ k \in BatchIndexes(reqs[r])
    /\ reqs[r].items[k].det.st = "fetch"
    /\ \E resp \in DetailResponses(scenario, reqs[r].basic[k].id, reqs[r].items[k].det.hist) :
         LET new == AfterSettle([reqs[r] EXCEPT !.items[k].det = FwOnResponse(@, resp)])
         IN  /\ reqs' = [reqs EXCEPT ![r] = new]
             /\ cache' = CacheAfter(reqs[r], new)
    /\ UNCHANGED <<hook, scenario, token, globalStyle, clock>>

\* the backoff timer of record k's release-detail call fires
DetailTimer(r, k) ==
    /\ reqs[r].pc = "chunk"
    /\ k \in BatchIndexes(reqs[r])
    /\ reqs[r].items[k].det.st = "sleep"
    /\ LET new == AfterSettle([reqs[r] EXCEPT !.items[k].det = FwOnTimer(@)])
       IN  /\ reqs' = [reqs EXCEPT ![r] = new]
           /\ cache' = CacheAfter(reqs[r], new)
    /\ UNCHANGED <<hook, scenario, token, globalStyle, clock>>

\* the marketplace-stats fetch of record k settles
PriceRespond(r, k) ==
    /\ reqs[r].pc = "chunk"
    /\ k \in BatchIndexes(reqs[r])
    /\ reqs[r].items[k].price.st = "fetch"
    /\ \E resp \in PriceResponses(scenario, reqs[r].basic[k].id) :
         LET new == AfterSettle([reqs[r] EXCEPT !.items[k].price.st = "done",
                                                !.items[k].price.resp = Some(resp)])
         IN  /\ reqs' = [reqs EXCEPT ![r] = new]
             /\ cache' = CacheAfter(reqs[r], new)
    /\ UNCHANGED <<hook, scenario, token, globalStyle, clock>>

\* the delay between two batches is over
DelayElapsed(r) ==
    /\ reqs[r].pc = "delay"
    /\ LET new == LoopTest([reqs[r] EXCEPT !.i = @ + BATCH_SIZE])
       IN  /\ reqs' = [reqs EXCEPT ![r] = new]
           /\ cache' = CacheAfter(reqs[r], new)
    /\ UNCHANGED <<hook, scenario, token, globalStyle, clock>>

\* time passes while no request is being served; it is counted from the
\* arrival of the first request
TICK_MS == CACHE_DURATION \div 2

Tick ==
    /\ clock < MaxTicks * TICK_MS
    /\ \E r \in REQUESTS : reqs[r].pc # "idle"
    /\ \A r \in REQUESTS : reqs[r].pc \in {"idle", "done"}
    /\ clock' = clock + TICK_MS
    /\ UNCHANGED <<hook, scenario, token, globalStyle, cache, reqs>>

Next ==
    \/ \E r \in REQUESTS : GetStart(r)
    \/ \E r \in REQUESTS : SearchRespond(r)
    \/ \E r \in REQUESTS, k \in 1..SAMPLE_LIMIT : DetailRespond(r, k)
    \/ \E r \in REQUESTS, k \in 1..SAMPLE_LIMIT : DetailTimer(r, k)
    \/ \E r \in REQUESTS, k \in 1..SAMPLE_LIMIT : PriceRespond(r, k)
    \/ \E r \in REQUESTS : DelayElapsed(r)
    \/ Tick

Spec == Init /\ [][Next]_vars

----------------------------------------------------------------------------
(* Overlapping requests against one cache                                   *)

CACHE_REQUESTS == {1, 2}

CacheInit ==
    /\ hook = HookIdle
    /\ scenario = "cache"
    /\ token \in {NoVal, Some("tok")}
    /\ globalStyle \in GlobalStyles("cache")
    /\ clock = 0
    /\ cache = [k \in CacheKeys |-> NoVal]
    /\ reqs = [r \in CACHE_REQUESTS |-> ReqIdle]

\* the response of request r has been sent; the next request takes its place
Retire(r) ==
    /\ reqs[r].pc = "done"
    /\ reqs' = [reqs EXCEPT ![r] = ReqIdle]
    /\ UNCHANGED <<hook, scenario, token, globalStyle, clock, cache>>

\* time passes, whatever the requests are doing
Elapse ==
    /\ clock < MaxTicks * TICK_MS
    /\ clock' = clock + TICK_MS
    /\ UNCHANGED <<hook, scenario, token, globalStyle, cache, reqs>>

\* the samples of this scenario fit one batch and its calls are not rate
\* limited: no backoff timer and no delay between batches is ever pending
CacheNext ==
    \/ \E r \in CACHE_REQUESTS : GetStart(r)
    \/ \E r \in CACHE_REQUESTS : SearchRespond(r)
    \/ \E r \in CACHE_REQUESTS, k \in 1..SAMPLE_LIMIT : DetailRespond(r, k)
    \/ \E r \in CACHE_REQUESTS, k \in 1..SAMPLE_LIMIT : PriceRespond(r, k)
    \/ \E r \in CACHE_REQUESTS : Retire(r)
    \/ Elapse

CacheSpec == CacheInit /\ [][CacheNext]_vars

----------------------------------------------------------------------------
(* The two phases of one client load                                        *)

PhasedInit ==
    /\ hook = HookIdle
    /\ scenario = "phased"
    /\ token = Some("tok")
    /\ globalStyle \in GlobalStyles("phased")
    /\ clock = 0
    /\ cache = [k \in CacheKeys |-> NoVal]
    /\ reqs = [r \in CACHE_REQUESTS |-> ReqIdle]

\* one batch holds every sample of this scenario and no call is rate limited
PhasedNext ==
    \/ \E r \in CACHE_REQUESTS : GetStart(r)
    \/ \E r \in CACHE_REQUESTS : SearchRespond(r)
    \/ \E r \in CACHE_REQUESTS, k \in 1..SAMPLE_LIMIT : DetailRespond(r, k)
    \/ \E r \in CACHE_REQUESTS, k \in 1..SAMPLE_LIMIT : PriceRespond(r, k)

PhasedSpec == PhasedInit /\ [][PhasedNext]_vars

----------------------------------------------------------------------------
(* useRecords: the client hook and its localStorage cache                   *)

HOOK_CACHE_DURATION == 7 * 24 * 60 * 60 * 1000

MaxSelections == 2

\* the records of a style as the route serves them in each phase, and as an
\* earlier session stored them
ClientRecords(style, version) == <<[id |-> 1, style |-> style, version |-> version]>>

\* one entry of the StyleCache object, which keeps its keys in insertion order
CacheEntry(style, timestamp, data) ==
    [style |-> style, timestamp |-> timestamp, data |-> data]

\* localStorage.getItem('all_styles_cache'): a JSON text, or text that is not
StoredCache(entries) == Some([valid |-> TRUE, entries |-> entries])
CorruptCache == Some([valid |-> FALSE, entries |-> <<>>])

\* what earlier sessions may have left in localStorage
InitialStorages ==
    LET old(st, age) == CacheEntry(st, 0 - age, ClientRecords(st, "stored"))
    IN  { NoVal, CorruptCache,
          StoredCache(<<old("Techno", HOOK_CACHE_DURATION)>>),
          StoredCache(<<old("Techno", TICK_MS)>>),
          StoredCache(<<old("House", TICK_MS), old("Techno", HOOK_CACHE_DURATION)>>),
          StoredCache(<<old("Techno", HOOK_CACHE_DURATION), old("House", 0)>>) }

\* the try block that loads the cache: {} when there is no item or JSON.parse throws
LoadCache(storage) ==
    IF Has(storage) /\ Val(storage).valid THEN Val(storage).entries ELSE <<>>

\* styleCache[style]
Lookup(styleCache, style) ==
    IF \E j \in 1..Len(styleCache) : styleCache[j].style = style
    THEN Some(styleCache[CHOOSE j \in 1..Len(styleCache) : styleCache[j].style = style])
    ELSE NoVal

\* styleCache[style] = entry: an existing key keeps its place, a new one goes last
Assign(styleCache, entry) ==
    IF Has(Lookup(styleCache, entry.style))
    THEN [j \in 1..Len(styleCache) |->
            IF styleCache[j].style = entry.style THEN entry ELSE styleCache[j]]
    ELSE Append(styleCache, entry)

\* one step of the stable sort by timestamp: e goes behind every entry that is
\* not younger than it
InsertByTimestamp(sorted, e) ==
    LET before == SelectSeq(sorted, LAMBDA x : x.timestamp <= e.timestamp)
        after  == SelectSeq(sorted, LAMBDA x : x.timestamp > e.timestamp)
    IN  before \o <<e>> \o after

RECURSIVE SortByTimestamp(_)
SortByTimestamp(entries) ==
    IF entries = <<>> THEN <<>>
    ELSE InsertByTimestamp(SortByTimestamp(SubSeq(entries, 1, Len(entries) - 1)),
                           entries[Len(entries)])

\* Object.entries(styleCache).sort(...)[0]?.[0]
OldestStyle(styleCache) ==
    IF styleCache = <<>> THEN NoVal ELSE Some(SortByTimestamp(styleCache)[1].style)

\* delete styleCache[style]
Delete(styleCache, style) == SelectSeq(styleCache, LAMBDA x : x.style # style)

\* styleCache[style] && (now - styleCache[style].timestamp) < CACHE_DURATION
ClientFresh(styleCache, style, now) ==
    /\ Has(Lookup(styleCache, style))
    /\ now - Val(Lookup(styleCache, style)).timestamp < HOOK_CACHE_DURATION

\* what a fetch of /api/records can settle with: a 200 with records, an error
\* status with or without an error text, a 200 whose body does not parse, a
\* rejected fetch
RouteResponses(style, phase) ==
    { [kind |-> "http", ok |-> TRUE,
       body |-> Some([records |-> ClientRecords(style, phase), error |-> NoVal])],
      [kind |-> "http", ok |-> FALSE,
       body |-> Some([records |-> <<>>, error |-> Some("No results found")])],
      [kind |-> "http", ok |-> FALSE, body |-> Some([records |-> <<>>, error |-> NoVal])],
      [kind |-> "http", ok |-> TRUE, body |-> NoVal],
      [kind |-> "neterr", ok |-> FALSE, body |-> NoVal] }

\* the error a fetch and its checks throw for a response, "" when none
FetchError(resp, fallback) ==
    IF resp.kind = "neterr" THEN "Failed to fetch"
    ELSE IF ~Has(resp.body) THEN "Unexpected token in JSON"
    ELSE IF ~resp.ok THEN OrStr(Val(resp.body).error, fallback)
    ELSE ""

\* the outcomes of localStorage.setItem
WRITE_OUTCOMES == {"ok", "quota", "other"}
QUOTA_MESSAGE == "The quota has been exceeded"

\* one run of the effect: the closure of fetchRecords
EffectOf(style, now, styleCache, pc, log) ==
    [ style |-> style, isMounted |-> TRUE, now |-> now, styleCache |-> styleCache,
      pc |-> pc, log |-> log, evicted |-> NoVal ]

\* the effect body up to its first await, for a style that is not null
StartEffect(h, style, now) ==
    LET styleCache == LoadCache(h.storage)
    IN  IF ClientFresh(styleCache, style, now)
        THEN [h EXCEPT !.records = Val(Lookup(styleCache, style)).data,
                       !.effects = Append(@, EffectOf(style, now, styleCache, "done", "hit"))]
        ELSE [h EXCEPT !.isLoading = TRUE,
                       !.error = NoVal,
                       !.effects = Append(@, EffectOf(style, now, styleCache, "basic", ""))]

\* the cleanup of the previous run, then the effect for the new style
RunEffect(h, style, now) ==
    LET cleaned == [h EXCEPT !.style = style,
                             !.selections = @ + 1,
                             !.effects = [j \in 1..Len(@) |-> [@[j] EXCEPT !.isMounted = FALSE]]]
    IN  IF Falsy(style) THEN [cleaned EXCEPT !.records = <<>>]
        ELSE StartEffect(cleaned, Val(style), now)

\* mutant of OnCatch: the stale entry is not used
OnCatchNoFallback(h, e, message, log) ==
    LET eff   == h.effects[e]
        ended == [h EXCEPT !.effects[e].pc = "done", !.effects[e].log = log]
    IN  IF ~eff.isMounted THEN ended
        ELSE [ended EXCEPT !.error = Some(message), !.isLoading = FALSE]

\* the outer catch and the finally of fetchRecords, for effect e
OnCatch(h, e, message, log) ==
    LET eff   == h.effects[e]
        entry == Lookup(eff.styleCache, eff.style)
        ended == [h EXCEPT !.effects[e].pc = "done", !.effects[e].log = log]
    IN  IF ~eff.isMounted THEN ended
        ELSE [ended EXCEPT !.error = Some(message),
                           !.records = IF Has(entry) THEN Val(entry).data ELSE @,
                           !.isLoading = FALSE]

\* mutant of AfterBasic: the basic records are shown without asking isMounted
AfterBasicUnguarded(h, e, resp) ==
    LET err == FetchError(resp, "Failed to fetch records")
    IN  IF err # "" THEN OnCatch(h, e, err, "basic failed")
        ELSE [h EXCEPT !.records = Val(resp.body).records,
                       !.effects[e].pc = "complete"]

\* fetchRecords after the basic fetch of effect e has settled with resp
AfterBasic(h, e, resp) ==
    LET eff == h.effects[e]
        err == FetchError(resp, "Failed to fetch records")
    IN  IF err # "" THEN OnCatch(h, e, err, "basic failed")
        ELSE [h EXCEPT !.records = IF eff.isMounted THEN Val(resp.body).records ELSE @,
                       !.effects[e].pc = "complete"]

\* the cache update of effect e with the complete records: setItem, and on a
\* quota error the eviction of the oldest entry and one more setItem
SaveCache(h, e, records, first, second) ==
    LET eff      == h.effects[e]
        updated  == Assign(eff.styleCache, CacheEntry(eff.style, eff.now, records))
        shown    == [h EXCEPT !.records = records, !.effects[e].styleCache = updated]
        evicted  == Delete(updated, Val(OldestStyle(updated)))
        retried  == [shown EXCEPT !.effects[e].styleCache = evicted,
                                  !.effects[e].evicted = Lookup(updated, Val(OldestStyle(updated)))]
        finished(g, log) ==
            [g EXCEPT !.isLoading = FALSE, !.effects[e].pc = "done", !.effects[e].log = log]
    IN  CASE first = "ok" ->
               finished([shown EXCEPT !.storage = StoredCache(updated)], "written")
          [] first = "other" -> finished(shown, "write dropped")
          [] first = "quota" /\ second = "ok" ->
               finished([retried EXCEPT !.storage = StoredCache(evicted)], "written after eviction")
          [] OTHER -> OnCatch(retried, e, QUOTA_MESSAGE, "write failed")

\* fetchRecords after the complete fetch of effect e has settled with resp
AfterComplete(h, e, resp, first, second) ==
    LET eff == h.effects[e]
        err == FetchError(resp, "Failed to fetch complete records")
    IN  IF err # "" THEN OnCatch(h, e, err, "complete failed")
        ELSE IF ~eff.isMounted
        THEN [h EXCEPT !.effects[e].pc = "done", !.effects[e].log = "unmounted"]
        ELSE SaveCache(h, e, Val(resp.body).records, first, second)

serverVars == <<scenario, token, globalStyle, cache, reqs>>

HookInit ==
    /\ scenario = "client"
    /\ token = NoVal
    /\ globalStyle = NoVal
    /\ clock = 0
    /\ cache = [k \in CacheKeys |-> NoVal]
    /\ reqs = <<>>
    /\ \E st \in InitialStorages : hook = [HookIdle EXCEPT !.storage = st]

\* the component renders with another style
Select(style) ==
    /\ hook.selections < MaxSelections
    /\ style # hook.style
    /\ hook' = RunEffect(hook, style, clock)
    /\ UNCHANGED <<serverVars, clock>>

\* the phase=basic fetch of effect e settles
BasicRespond(e) ==
    /\ e \in 1..Len(hook.effects)
    /\ hook.effects[e].pc = "basic"
    /\ \E resp \in RouteResponses(hook.effects[e].style, "basic") :
         hook' = AfterBasic(hook, e, resp)
    /\ UNCHANGED <<serverVars, clock>>

\* the phase=complete fetch of effect e settles
CompleteRespond(e) ==
    /\ e \in 1..Len(hook.effects)
    /\ hook.effects[e].pc = "complete"
    /\ \E resp \in RouteResponses(hook.effects[e].style, "complete"),
          first \in WRITE_OUTCOMES, second \in {"ok", "quota"} :
         hook' = AfterComplete(hook, e, resp, first, second)
    /\ UNCHANGED <<serverVars, clock>>

HookNext ==
    \/ \E style \in {NoVal} \cup {Some(st) : st \in STYLES} : Select(style)
    \/ \E e \in 1..MaxSelections : BasicRespond(e)
    \/ \E e \in 1..MaxSelections : CompleteRespond(e)
    \/ Elapse

HookSpec == HookInit /\ [][HookNext]_vars

----------------------------------------------------------------------------
(* Properties                                                               *)

\* the raw results a request's search was answered with
RawResults(rq) ==
    IF Has(rq.searchResp) /\ IsOk(Val(rq.searchResp)) /\ Has(Val(rq.searchResp).body)
       /\ Has(Val(Val(rq.searchResp).body).results)
    THEN Val(Val(Val(rq.searchResp).body).results)
    ELSE <<>>

\* the trimmed text before the first " - " of a composite field
TrimmedArtist(title) == Trim(SubSeq(title, 1,
    IF IndexFrom(title, SEP, 1) = 0 THEN Len(title) ELSE IndexFrom(title, SEP, 1) - 1))

\* the enrichment calls of record k of a request, as the upstream answered them
DetailFailed(item) ==
    /\ item.det.st = "done"
    /\ \/ Val(item.det.result).kind = "throw"
       \/ ~IsOk(Val(item.det.result).resp)
DetailMalformed(item) ==
    /\ item.det.st = "done"
    /\ Val(item.det.result).kind = "return"
    /\ IsOk(Val(item.det.result).resp)
    /\ ~Has(Val(item.det.result).resp.body)
DetailServed(item) ==
    /\ item.det.st = "done"
    /\ Val(item.det.result).kind = "return"
    /\ IsOk(Val(item.det.result).resp)
    /\ Has(Val(item.det.result).resp.body)
DetailData(item) == Val(Val(item.det.result).resp.body)
PriceFailed(item) == item.price.st = "done" /\ ~IsOk(Val(item.price.resp))
PriceMalformed(item) ==
    item.price.st = "done" /\ IsOk(Val(item.price.resp)) /\ ~Has(Val(item.price.resp).body)
PriceServed(item) ==
    item.price.st = "done" /\ IsOk(Val(item.price.resp)) /\ Has(Val(item.price.resp).body)
PriceData(item) == Val(Val(item.price.resp).body)

\* a request that built a sample and went on to enrich it
Enriching(rq) == rq.sampled /\ rq.phase # "basic"

(* C1: every sample searchDiscogsRecords builds on a cache miss has pairwise
   distinct trimmed artists, at most 20 records, and no more records than the
   raw results have distinct trimmed artists. *)
C1_SampleDistinctBounded ==
    \A r \in REQUESTS :
      reqs[r].sampled =>
        LET sample == reqs[r].basic
            raw    == RawResults(reqs[r])
        IN  /\ \A a, b \in 1..Len(sample) :
                 a # b => Trim(sample[a].artist) # Trim(sample[b].artist)
            /\ Len(sample) <= 20
            /\ Len(sample) <= Cardinality({TrimmedArtist(raw[j].title) : j \in 1..Len(raw)})

\* a sample of three from six results: repeated artists, in several paddings
C1_Witness ==
    \E r \in REQUESTS :
      /\ reqs[r].sampled
      /\ Len(RawResults(reqs[r])) = 6
      /\ Len(reqs[r].basic) = 3

\* more distinct artists than the limit: the sample is cut at 20
C1_WitnessCut ==
    \E r \in REQUESTS :
      /\ reqs[r].sampled
      /\ Len(RawResults(reqs[r])) > 20
      /\ Len(reqs[r].basic) = 20

(* C2: a complete-phase GET that has a sample to enrich is answered 200 with
   exactly one record per sampled item, whatever detail and price calls fail
   with a non-2xx status, with 429 on every retry or at transport level; the
   fields of a failed call are absent (haves/wants as in the basic record). *)
C2_PartialFailureIs200 ==
    \A r \in REQUESTS :
      LET rq == reqs[r]
      IN  ( /\ rq.pc = "done"
            /\ Enriching(rq)
            /\ \A k \in 1..Len(rq.items) :
                 ~DetailMalformed(rq.items[k]) /\ ~PriceMalformed(rq.items[k]) )
          => /\ Val(rq.resp).status = 200
             /\ Len(Val(rq.resp).records) = Len(rq.basic)
             /\ \A k \in 1..Len(rq.basic) :
                  LET rec == Val(rq.resp).records[k]
                  IN  /\ rec.id = rq.basic[k].id
                      /\ DetailFailed(rq.items[k]) =>
                           /\ rec.youtubeId = NoVal
                           /\ rec.communityRating = NoVal
                           /\ rec.haves = rq.basic[k].haves
                           /\ rec.wants = rq.basic[k].wants
                      /\ PriceFailed(rq.items[k]) => rec.lowestPrice = NoVal

\* two sampled items: the first rate-limited on every try of its detail call
\* and unreachable on its price call, the second refused on its detail call
C2_Witness ==
    \E r \in REQUESTS :
      /\ reqs[r].pc = "done"
      /\ Enriching(reqs[r])
      /\ Len(reqs[r].basic) = 2
      /\ reqs[r].items[1].det.hist = <<429, 429, 429>>
      /\ Val(reqs[r].items[1].price.resp).kind = "neterr"
      /\ reqs[r].items[2].det.hist = <<500>>
      /\ PriceServed(reqs[r].items[2])
      /\ Val(reqs[r].resp).status = 200

(* C3: in every enriched record, a failed detail call with a served price call
   gives youtubeId and communityRating absent, haves/wants of the basic record
   and the price; a failed price call with a served detail call gives
   lowestPrice absent and the detail fields carrying the detail values. *)
C3_IndependentDegradation ==
    \A r \in REQUESTS :
      \A k \in 1..Len(reqs[r].processed) :
        LET item  == reqs[r].items[k]
            basic == reqs[r].basic[k]
            rec   == reqs[r].processed[k]
        IN  /\ ( DetailFailed(item) /\ PriceServed(item)
                 /\ Has(PriceData(item).lowest_price) )
               => /\ rec.youtubeId = NoVal
                  /\ rec.communityRating = NoVal
                  /\ rec.haves = basic.haves
                  /\ rec.wants = basic.wants
                  /\ rec.lowestPrice = PriceData(item).lowest_price
            /\ ( PriceFailed(item) /\ DetailServed(item) )
               => /\ rec.lowestPrice = NoVal
                  /\ rec.youtubeId = YoutubeIdOf(Some(DetailData(item)))
                  /\ Has(DetailData(item).community) =>
                       LET c == Val(DetailData(item).community)
                       IN  /\ rec.communityRating = c.rating
                           /\ Has(c.have) => rec.haves = Val(c.have)
                           /\ Has(c.want) => rec.wants = Val(c.want)

(* C4: a detail or price response whose body does not parse never fails the
   request: the complete phase still answers 200 with one record per sampled
   item, the fields of the unparsable call absent. *)
C4_MalformedIsNoData ==
    \A r \in REQUESTS :
      LET rq == reqs[r]
      IN  ( /\ rq.pc = "done"
            /\ Enriching(rq)
            /\ \E k \in 1..Len(rq.items) :
                 DetailMalformed(rq.items[k]) \/ PriceMalformed(rq.items[k]) )
          => /\ Val(rq.resp).status = 200
             /\ Len(Val(rq.resp).records) = Len(rq.basic)
             /\ \A k \in 1..Len(rq.basic) :
                  LET rec == Val(rq.resp).records[k]
                  IN  /\ DetailMalformed(rq.items[k]) =>
                           rec.youtubeId = NoVal /\ rec.communityRating = NoVal
                      /\ PriceMalformed(rq.items[k]) => rec.lowestPrice = NoVal

(* C5: the enriched record's communityRating is the rating of the detail
   payload, 0 included, and absent exactly when the payload has no rating. *)
C5_RatingZeroPreserved ==
    \A r \in REQUESTS :
      \A k \in 1..Len(reqs[r].processed) :
        DetailServed(reqs[r].items[k]) =>
          reqs[r].processed[k].communityRating =
            CommunityField(Some(DetailData(reqs[r].items[k])), "rating")

(* C6: in every fetchWithRetry invocation, a response with a status other
   than 429 is the last one: it is returned as it is and no further call is
   made. *)
C6_OnlyRetries429 ==
    \A r \in REQUESTS :
      \A k \in 1..Len(reqs[r].items) :
        LET det == reqs[r].items[k].det
        IN  \A j \in 1..Len(det.hist) :
              (det.hist[j] # 429 /\ det.hist[j] # 0)
              => /\ j = Len(det.hist)
                 /\ det.calls = j
                 /\ det.st = "done"
                 /\ Val(det.result).kind = "return"
                 /\ Val(det.result).resp.status = det.hist[j]

\* a 500 after one 429: returned, two calls made
C6_Witness ==
    \E r \in REQUESTS :
      \E k \in 1..Len(reqs[r].items) :
        /\ reqs[r].items[k].det.hist = <<429, 500>>
        /\ reqs[r].items[k].det.calls = 2
        /\ Val(reqs[r].items[k].det.result).resp.status = 500

(* C7: a fetchWithRetry invocation answered 429, 429, 200 returns the 200
   response after exactly three calls and 1000 + 2000 ms of backoff. *)
C7_TwoBackoffsThenSuccess ==
    \A r \in REQUESTS :
      \A k \in 1..Len(reqs[r].items) :
        LET det == reqs[r].items[k].det
        IN  det.hist = <<429, 429, 200>>
            => /\ det.st = "done"
               /\ Val(det.result).kind = "return"
               /\ Val(det.result).resp.status = 200
               /\ det.calls = 3
               /\ det.waited = 1000 + 2000

C7_Witness ==
    \E r \in REQUESTS :
      \E k \in 1..Len(reqs[r].items) :
        /\ reqs[r].items[k].det.hist = <<429, 429, 200>>
        /\ DetailServed(reqs[r].items[k])

(* C8: a fetchWithRetry invocation makes at most 3 calls and is over after
   the third response; when it ends on a 429 it throws the retries-exhausted
   error, when it ends on a transport failure it rethrows that failure (only
   on the third attempt), and any other response is returned, not thrown. *)
C8_BoundedRetries ==
    \A r \in REQUESTS :
      \A k \in 1..Len(reqs[r].items) :
        LET det  == reqs[r].items[k].det
            last == det.hist[Len(det.hist)]
        IN  /\ det.calls <= 3
            /\ Len(det.hist) <= det.calls
            /\ Len(det.hist) = 3 => det.st \in {"sleep", "done"}
            /\ (det.st = "sleep" /\ Len(det.hist) = 3) => last = 429
            /\ det.st = "done" =>
                 CASE last = 429 ->
                        /\ Val(det.result).kind = "throw"
                        /\ Val(det.result).err = "Max retries exceeded"
                        /\ Len(det.hist) = 3
                   [] last = 0 ->
                        /\ Val(det.result).kind = "throw"
                        /\ Val(det.result).err # "Max retries exceeded"
                        /\ Len(det.hist) = 3
                   [] OTHER ->
                        /\ Val(det.result).kind = "return"
                        /\ Val(det.result).resp.status = last

\* retries used up by a transport failure and two 429
C8_Witness ==
    \E r \in REQUESTS :
      \E k \in 1..Len(reqs[r].items) :
        /\ reqs[r].items[k].det.hist = <<0, 429, 429>>
        /\ reqs[r].items[k].det.st = "done"
        /\ Val(reqs[r].items[k].det.result).err = "Max retries exceeded"

(* C9: a search call or a price call whose response is 429 is tried again:
   the request has not ended on, and the price has not settled with, a single
   call answered 429. *)
C9_AllCallsRetry429 ==
    \A r \in REQUESTS :
      /\ ( Has(reqs[r].searchResp) /\ KindOf(Val(reqs[r].searchResp)) = 429 )
         => reqs[r].searchCalls >= 2
      /\ \A k \in 1..Len(reqs[r].items) :
           LET price == reqs[r].items[k].price
           IN  ( Has(price.resp) /\ KindOf(Val(price.resp)) = 429 ) => price.calls >= 2

(* C10: the batch loop keeps the sample: the records pushed so far are the
   enrichments of the first records of the sample, in order, a whole number
   of batches; the complete response holds one record per sampled record,
   the i-th with the id of the i-th. *)
C10_BatchLoopPreservesSample ==
    \A r \in REQUESTS :
      LET rq == reqs[r]
      IN  Enriching(rq) =>
            /\ Len(rq.processed) <= Len(rq.basic)
            /\ \A j \in 1..Len(rq.processed) : rq.processed[j].id = rq.basic[j].id
            /\ rq.pc = "chunk" => Len(rq.processed) = rq.i
            /\ rq.pc = "delay" => Len(rq.processed) = rq.i + BATCH_SIZE
            /\ (rq.pc = "done" /\ Val(rq.resp).status = 200)
               => /\ Val(rq.resp).records = rq.processed
                  /\ Len(rq.processed) = Len(rq.basic)

\* twenty records enriched in four batches
C10_Witness ==
    \E r \in REQUESTS :
      /\ reqs[r].pc = "done"
      /\ Enriching(reqs[r])
      /\ Val(reqs[r].resp).status = 200
      /\ Len(Val(reqs[r].resp).records) = 20
      /\ reqs[r].delays = 3

----------------------------------------------------------------------------
(* Properties of the cache                                                  *)

\* request r arrives in this step, with a style
Arrives(r) ==
    /\ reqs[r].pc = "idle"
    /\ reqs'[r].pc # "idle"
    /\ ~Falsy(reqs'[r].style)

\* the age of a cache entry at clock time t
Age(entry, t) == t - Val(entry).timestamp

\* request r was answered from the cache
ServedFromCache(rq) ==
    /\ rq.pc = "done"
    /\ ~Falsy(rq.style)
    /\ rq.searchCalls = 0
    /\ Val(rq.resp).status = 200

(* C11: a request that arrives while the entry of its style is younger than
   CACHE_DURATION is answered at once with the stored records and
   isComplete = true, whatever its phase, with no upstream call and no cache
   write; one that arrives when the entry is CACHE_DURATION old or older is
   not answered from it; and no step removes an entry from the cache. *)
C11_FreshServedStaleKept ==
    [][ /\ \A k \in CacheKeys : Has(cache[k]) => Has(cache'[k])
        /\ \A r \in DOMAIN reqs :
             Arrives(r) =>
               LET entry == cache[CacheKeyOf(Val(reqs'[r].style))]
                   rq    == reqs'[r]
               IN  /\ (Has(entry) /\ Age(entry, clock) < CACHE_DURATION) =>
                         /\ rq.pc = "done"
                         /\ rq.resp = Reply(200, Val(entry).records, TRUE, "")
                         /\ rq.searchCalls = 0
                         /\ rq.items = <<>>
                         /\ cache' = cache
                   /\ (Has(entry) /\ Age(entry, clock) >= CACHE_DURATION) =>
                         /\ ~ServedFromCache(rq)
                         /\ cache' = cache
      ]_vars

\* a basic-phase request answered from an entry half a CACHE_DURATION old,
\* while a request for the other style, whose entry is exactly CACHE_DURATION
\* old, has gone to the search
C11_Witness ==
    /\ ServedFromCache(reqs[1])
    /\ reqs[1].phase = "basic"
    /\ Val(reqs[1].resp).isComplete
    /\ Has(cache[CacheKeyOf("Techno")])
    /\ Age(cache[CacheKeyOf("Techno")], reqs[1].now) = TICK_MS
    /\ 2 \in DOMAIN reqs
    /\ reqs[2].pc = "search"
    /\ reqs[2].style = Some("House")
    /\ Has(cache[CacheKeyOf("House")])
    /\ Age(cache[CacheKeyOf("House")], reqs[2].now) = CACHE_DURATION

\* request r ends in this step
Ends(r) == reqs[r].pc # "done" /\ reqs'[r].pc = "done"

(* C12: a step changes a cache entry only when it ends a complete-phase
   request with status 200 after its enrichment ran, and the entry then holds
   that request's whole output, one record per sampled record; a step that
   ends a basic-phase request, ends a request with an error status or serves
   a request from the cache leaves the cache as it was. *)
C12_OnlyFullEnrichmentWrites ==
    [][ /\ \A k \in CacheKeys :
             cache'[k] # cache[k] =>
               \E r \in DOMAIN reqs :
                 /\ Ends(r)
                 /\ reqs[r].pc = "chunk"
                 /\ reqs'[r].phase # "basic"
                 /\ Val(reqs'[r].resp).status = 200
                 /\ k = CacheKeyOf(Val(reqs'[r].style))
                 /\ Val(cache'[k]).records = Val(reqs'[r].resp).records
                 /\ Val(cache'[k]).records = reqs'[r].processed
                 /\ Len(reqs'[r].processed) = Len(reqs'[r].basic)
        /\ \A r \in DOMAIN reqs :
             ( /\ Ends(r)
               /\ \/ reqs'[r].phase = "basic"
                  \/ Val(reqs'[r].resp).status >= 400
                  \/ ServedFromCache(reqs'[r]) )
             => cache' = cache
      ]_vars

\* a complete-phase request that failed on a stale entry and a basic-phase
\* request for a style never cached: the stale entry and the empty slot stand
C12_Witness ==
    /\ reqs[1].pc = "done"
    /\ reqs[1].phase = "complete"
    /\ Val(reqs[1].resp).status = 500
    /\ Has(cache[CacheKeyOf("Techno")])
    /\ Age(cache[CacheKeyOf("Techno")], reqs[1].now) = CACHE_DURATION
    /\ 2 \in DOMAIN reqs
    /\ reqs[2].pc = "done"
    /\ reqs[2].phase = "basic"
    /\ reqs[2].style = Some("House")
    /\ Val(reqs[2].resp).status = 200
    /\ ~Val(reqs[2].resp).isComplete
    /\ ~Has(cache[CacheKeyOf("House")])

(* C16: every step that changes the cache replaces the entry of one style by
   the timestamp and the whole record set of the one request that ends in
   that step, and leaves the entries of the other styles as they were. *)
C16_LastWriteWinsNoMerge ==
    [][ cache' # cache =>
          \E r \in DOMAIN reqs :
            LET k == CacheKeyOf(Val(reqs'[r].style))
            IN  /\ Ends(r)
                /\ cache'[k] = Some([timestamp |-> reqs'[r].now,
                                     records   |-> reqs'[r].processed])
                /\ Val(reqs'[r].resp).records = reqs'[r].processed
                /\ \A k2 \in CacheKeys \ {k} : cache'[k2] = cache[k2]
      ]_vars

\* two requests for the same style that ran side by side (both missed the
\* cache at the same time) and enriched differently: the entry is the second's,
\* and the entry of the other style is still empty
C16_Witness ==
    /\ 2 \in DOMAIN reqs
    /\ \A r \in {1, 2} :
         /\ reqs[r].pc = "done"
         /\ reqs[r].wrote
         /\ reqs[r].style = Some("Techno")
         /\ reqs[r].now = 0
    /\ reqs[1].processed # reqs[2].processed
    /\ cache[CacheKeyOf("Techno")] =
         Some([timestamp |-> 0, records |-> reqs[2].processed])
    /\ ~Has(cache[CacheKeyOf("House")])

(* C17: a request that arrives without a style parameter is answered in the
   same step with status 400 and an error text; it has issued no upstream
   call and the cache is as it was. *)
C17_MissingStyleIs400 ==
    [][ \A r \in DOMAIN reqs :
          ( /\ reqs[r].pc = "idle"
            /\ reqs'[r].pc # "idle"
            /\ reqs'[r].style = NoVal )
          => /\ reqs'[r].pc = "done"
             /\ Val(reqs'[r].resp).status = 400
             /\ Val(reqs'[r].resp).error # ""
             /\ reqs'[r].searchCalls = 0
             /\ reqs'[r].items = <<>>
             /\ cache' = cache
      ]_vars

\* a request without style answered 400 while the cache holds an entry
C17_Witness ==
    /\ 2 \in DOMAIN reqs
    /\ reqs[2].pc = "done"
    /\ reqs[2].style = NoVal
    /\ Val(reqs[2].resp).status = 400
    /\ Has(cache[CacheKeyOf("Techno")])

----------------------------------------------------------------------------
(* Properties of the request handler                                        *)

\* the search of a request was answered 200 with an empty results array
EmptyResults(rq) ==
    /\ Has(rq.searchResp)
    /\ IsOk(Val(rq.searchResp))
    /\ Has(Val(rq.searchResp).body)
    /\ Val(Val(rq.searchResp).body).results = Some(<<>>)

(* C13: a request whose search returned an empty results array is answered
   404 with an error payload. *)
C13_EmptyResultsIs404 ==
    \A r \in DOMAIN reqs :
      (reqs[r].pc = "done" /\ EmptyResults(reqs[r])) =>
        /\ Val(reqs[r].resp).status = 404
        /\ Val(reqs[r].resp).error # ""

----------------------------------------------------------------------------
(* Properties of the client hook                                            *)

\* effect e is the run for the style now selected, and has ended with log
EndedWith(e, logs) ==
    /\ hook.effects[e].isMounted
    /\ hook.effects[e].pc = "done"
    /\ hook.effects[e].log \in logs

(* C14: whatever happens to the cache write of the run for the selected style,
   the hook ends with error null, isLoading false and the complete records;
   when the first write failed for lack of capacity, an entry no younger than
   any entry kept is gone from what the retry stored. *)
C14_WriteNeverFailsRequest ==
    \A e \in 1..Len(hook.effects) :
      LET eff == hook.effects[e]
      IN  /\ EndedWith(e, {"written", "write dropped", "written after eviction",
                           "write failed"})
             => /\ hook.error = NoVal
                /\ hook.records = ClientRecords(eff.style, "complete")
                /\ ~hook.isLoading
          /\ EndedWith(e, {"written after eviction"})
             => /\ Has(eff.evicted)
                /\ hook.storage = StoredCache(eff.styleCache)
                /\ ~Has(Lookup(eff.styleCache, Val(eff.evicted).style))
                /\ \A j \in 1..Len(eff.styleCache) :
                     Val(eff.evicted).timestamp <= eff.styleCache[j].timestamp

\* a fetch of effect e, the run for the selected style, fails in this step
FetchFails(e) ==
    /\ hook.effects[e].isMounted
    /\ hook.effects[e].pc # "done"
    /\ hook'.effects[e].pc = "done"
    /\ hook'.effects[e].log \in {"basic failed", "complete failed"}

(* C15: when a fetch of the run for the selected style fails, error becomes
   non-null; if localStorage holds an entry for the style, the entry is stale
   and records become its data; if it holds none, records stay as they were;
   localStorage is not changed. *)
C15_StaleFallbackOnFailure ==
    [][ \A e \in 1..Len(hook.effects) :
          FetchFails(e) =>
            LET eff   == hook.effects[e]
                entry == Lookup(LoadCache(hook.storage), eff.style)
            IN  /\ hook'.error # NoVal
                /\ Has(entry) =>
                     /\ hook'.records = Val(entry).data
                     /\ eff.now - Val(entry).timestamp >= HOOK_CACHE_DURATION
                /\ ~Has(entry) => hook'.records = hook.records
                /\ hook'.storage = hook.storage
      ]_vars

\* the complete fetch failed after the basic records were shown, and the
\* records of the stale entry are shown again
C15_Witness ==
    \E e \in 1..Len(hook.effects) :
      /\ EndedWith(e, {"complete failed"})
      /\ hook.error # NoVal
      /\ Has(Lookup(LoadCache(hook.storage), hook.effects[e].style))
      /\ hook.records = ClientRecords(hook.effects[e].style, "stored")

(* C18: in every enriched record whose detail call was served, haves and wants
   are the have and want counts of the detail payload where it carries them,
   0 included, and those of the basic record where it does not; with a failed
   detail call they are those of the basic record. *)
C18_DetailCountsOverwrite ==
    \A r \in DOMAIN reqs :
      \A k \in 1..Len(reqs[r].processed) :
        LET item  == reqs[r].items[k]
            basic == reqs[r].basic[k]
            rec   == reqs[r].processed[k]
            have  == CommunityField(Some(DetailData(item)), "have")
            want  == CommunityField(Some(DetailData(item)), "want")
        IN  /\ DetailServed(item) =>
                 /\ rec.haves = (IF Has(have) THEN Val(have) ELSE basic.haves)
                 /\ rec.wants = (IF Has(want) THEN Val(want) ELSE basic.wants)
            /\ DetailFailed(item) =>
                 /\ rec.haves = basic.haves
                 /\ rec.wants = basic.wants

\* the whole text after the first " - " of a composite field, or the whole
\* field when it has no separator
RemainderOf(title) ==
    IF IndexFrom(title, SEP, 1) = 0 THEN title
    ELSE SubSeq(title, IndexFrom(title, SEP, 1) + Len(SEP), Len(title))

\* the search result a basic record was made from
ItemOf(rq, rec) ==
    RawResults(rq)[CHOOSE j \in 1..Len(RawResults(rq)) : RawResults(rq)[j].id = rec.id]

(* C19: every basic record has as artist the trimmed text before the first
   " - " of its result's composite field, and as title the whole remainder
   after that first separator, or the whole field when there is none. *)
C19_ArtistAndTitleSplit ==
    \A r \in DOMAIN reqs :
      \A k \in 1..Len(reqs[r].basic) :
        LET rec == reqs[r].basic[k]
            raw == ItemOf(reqs[r], rec).title
        IN  /\ rec.artist = TrimmedArtist(raw)
            /\ rec.title = RemainderOf(raw)

(* C20: a request whose search returned results builds its sample (building a
   basic record does not fail), and every record of the sample, of the
   enriched output and of the response carries the request's style. *)
C20_StyleEchoed ==
    \A r \in DOMAIN reqs :
      LET rq == reqs[r]
      IN  /\ (rq.pc = "done" /\ RawResults(rq) # <<>>) => rq.sampled
          /\ rq.sampled =>
               /\ \A k \in 1..Len(rq.basic) : rq.basic[k].style = Val(rq.style)
               /\ \A k \in 1..Len(rq.processed) : rq.processed[k].style = Val(rq.style)
               /\ rq.pc = "done" =>
                    \A k \in 1..Len(Val(rq.resp).records) :
                      Val(rq.resp).records[k].style = Val(rq.style)

----------------------------------------------------------------------------
(* Properties of the batch loop and the phases                              *)

\* the chunk a record of the sample belongs to, counted from 0
ChunkOf(k) == (k - 1) \div 5

\* the number of chunks of a sample of n records
ChunksOf(n) == (n + 4) \div 5

\* a call of the record has been issued; both calls of the record are over
ItemStarted(item) == item.det.st # "idle" \/ item.price.st # "idle"
ItemOver(item) == item.det.st = "done" /\ item.price.st = "done"

(* C21: while a sample is enriched, a record's calls are issued only when
   every call of every earlier chunk of five is over; a delay is pending only
   between two chunks, with all calls so far over and records still to come,
   and it is the one after the chunks done so far; a complete response for n
   records comes after exactly ceil(n/5) - 1 delays. *)
C21_ChunksInSequenceWithDelays ==
    \A r \in DOMAIN reqs :
      LET rq == reqs[r]
          n  == Len(rq.basic)
      IN  Enriching(rq) =>
            /\ \A j, k \in 1..Len(rq.items) :
                 (ChunkOf(j) < ChunkOf(k) /\ ItemStarted(rq.items[k]))
                 => ItemOver(rq.items[j])
            /\ rq.pc = "delay" =>
                 /\ \A k \in 1..Len(rq.items) :
                      ItemStarted(rq.items[k]) => ItemOver(rq.items[k])
                 /\ Len(rq.processed) < n
                 /\ Len(rq.processed) = 5 * rq.delays
            /\ rq.pc = "chunk" =>
                 /\ rq.delays = Len(rq.processed) \div 5
                 /\ Len(rq.processed) = 5 * rq.delays
            /\ (rq.pc = "done" /\ Val(rq.resp).status = 200) =>
                 rq.delays = ChunksOf(n) - 1

\* eleven records: the third chunk, of one record, is running after two delays
C21_Witness ==
    \E r \in DOMAIN reqs :
      /\ Enriching(reqs[r])
      /\ reqs[r].pc = "chunk"
      /\ Len(reqs[r].basic) = 11
      /\ reqs[r].delays = 2
      /\ ItemStarted(reqs[r].items[11])
      /\ ~ItemOver(reqs[r].items[11])

\* the upstream calls a request has issued so far
UpstreamCalls(rq) ==
    rq.searchCalls
    + Cardinality({k \in 1..Len(rq.items) : rq.items[k].det.calls > 0})
    + Cardinality({k \in 1..Len(rq.items) : rq.items[k].price.calls > 0})

(* C22: a basic-phase request never issues a detail or price call and at most
   one search call; one that was not answered from the cache and ends with 200
   has issued exactly one call, the search, and answers isComplete = false
   with youtubeId, lowestPrice and communityRating absent in every record. *)
C22_BasicPhaseSearchOnly ==
    \A r \in DOMAIN reqs :
      LET rq == reqs[r]
      IN  rq.phase = "basic" =>
            /\ rq.items = <<>>
            /\ UpstreamCalls(rq) <= 1
            /\ (rq.pc = "done" /\ Val(rq.resp).status = 200 /\ ~ServedFromCache(rq)) =>
                 /\ UpstreamCalls(rq) = 1
                 /\ rq.searchCalls = 1
                 /\ ~Val(rq.resp).isComplete
                 /\ Val(rq.resp).records # <<>>
                 /\ \A k \in 1..Len(Val(rq.resp).records) :
                      /\ Val(rq.resp).records[k].youtubeId = NoVal
                      /\ Val(rq.resp).records[k].lowestPrice = NoVal
                      /\ Val(rq.resp).records[k].communityRating = NoVal

\* a basic-phase request answered with a fresh sample while the entry of its
\* style, CACHE_DURATION old, is still in the cache
C22_Witness ==
    /\ reqs[1].pc = "done"
    /\ reqs[1].phase = "basic"
    /\ Val(reqs[1].resp).status = 200
    /\ ~Val(reqs[1].resp).isComplete
    /\ Has(cache[CacheKeyOf("Techno")])
    /\ Age(cache[CacheKeyOf("Techno")], reqs[1].now) >= CACHE_DURATION

\* the ids of a list of records, in order
IdsOf(records) == [k \in 1..Len(records) |-> records[k].id]

(* C23: a basic-phase and a complete-phase request for the same style whose
   searches were answered alike, both ending with 200 on records they
   computed themselves, answer with the same record ids in the same order. *)
C23_CompleteRecomputesSameSample ==
    \A b, c \in DOMAIN reqs :
      ( /\ reqs[b].pc = "done" /\ reqs[c].pc = "done"
        /\ reqs[b].phase = "basic" /\ reqs[c].phase # "basic"
        /\ reqs[b].style = reqs[c].style
        /\ reqs[b].searchCalls = 1 /\ reqs[c].searchCalls = 1
        /\ reqs[b].searchResp = reqs[c].searchResp
        /\ Val(reqs[b].resp).status = 200 /\ Val(reqs[c].resp).status = 200 )
      => IdsOf(Val(reqs[c].resp).records) = IdsOf(Val(reqs[b].resp).records)

\* three results over two artists: both phases answer with records 1 and 2
C23_Witness ==
    \E b, c \in DOMAIN reqs :
      /\ reqs[b].pc = "done" /\ reqs[c].pc = "done"
      /\ reqs[b].phase = "basic" /\ reqs[c].phase = "complete"
      /\ reqs[b].searchCalls = 1 /\ reqs[c].searchCalls = 1
      /\ reqs[b].searchResp = reqs[c].searchResp
      /\ Len(RawResults(reqs[b])) = 3
      /\ Val(reqs[c].resp).isComplete
      /\ IdsOf(Val(reqs[c].resp).records) = <<1, 2>>
      /\ IdsOf(Val(reqs[b].resp).records) = <<1, 2>>

(* C24: with no token configured, a request that arrives with a style whose
   entry is missing or not fresh is answered in the same step with status 500
   and the configuration error; it has issued no upstream call and the cache
   is as it was. *)
C24_MissingTokenIs500 ==
    [][ \A r \in DOMAIN reqs :
          LET entry == cache[CacheKeyOf(Val(reqs'[r].style))]
          IN  ( /\ Arrives(r)
                /\ token \in {NoVal, Some("")}
                /\ ~(Has(entry) /\ Age(entry, clock) < CACHE_DURATION) )
              => /\ reqs'[r].pc = "done"
                 /\ Val(reqs'[r].resp).status = 500
                 /\ Val(reqs'[r].resp).error = "Discogs token is not configured"
                 /\ UpstreamCalls(reqs'[r]) = 0
                 /\ cache' = cache
      ]_vars

\* a complete-phase request refused for the missing token, after time passed
C24_Witness ==
    \E r \in DOMAIN reqs :
      /\ token = NoVal
      /\ reqs[r].pc = "done"
      /\ reqs[r].phase = "complete"
      /\ reqs[r].now > 0
      /\ Val(reqs[r].resp).status = 500
      /\ UpstreamCalls(reqs[r]) = 0

(* C25: no step replaces a cache entry by one with a smaller timestamp. *)
C25_TimestampNeverDecreases ==
    [][ \A k \in CacheKeys :
          (Has(cache[k]) /\ Has(cache'[k])) =>
            Val(cache'[k]).timestamp >= Val(cache[k]).timestamp
      ]_vars

----------------------------------------------------------------------------
(* Properties of the hook across style selections                           *)

(* C26: once every run of the effect that was started has ended, isLoading is
   false. *)
C26_LoadingEndsWithTheRequests ==
    (\A e \in 1..Len(hook.effects) : hook.effects[e].pc = "done") => ~hook.isLoading

(* C27: when the run for the selected style has served the records from a
   fresh entry of localStorage, error is null. *)
C27_CacheHitHasNoError ==
    \A e \in 1..Len(hook.effects) :
      EndedWith(e, {"hit"}) => hook.error = NoVal

\* a fetch of effect e settles in this step after its style was deselected
SettlesUnmounted(e) ==
    /\ ~hook.effects[e].isMounted
    /\ hook'.effects[e] # hook.effects[e]

(* C28: a response or failure of a run whose style is no longer the selected
   one changes neither records nor error nor isLoading nor localStorage. *)
C28_DeselectedRunChangesNothing ==
    [][ \A e \in 1..Len(hook.effects) :
          SettlesUnmounted(e) =>
            /\ hook'.records = hook.records
            /\ hook'.error = hook.error
            /\ hook'.isLoading = hook.isLoading
            /\ hook'.storage = hook.storage
      ]_vars

\* both fetches of the first run were answered after the second style was
\* selected, the second run has shown its basic records and still waits
C28_Witness ==
    /\ Len(hook.effects) = 2
    /\ hook.effects[1].style # hook.effects[2].style
    /\ hook.style = Some(hook.effects[2].style)
    /\ ~hook.effects[1].isMounted
    /\ hook.effects[1].log = "unmounted"
    /\ hook.effects[2].pc = "complete"
    /\ hook.records = ClientRecords(hook.effects[2].style, "basic")
    /\ hook.error = NoVal

====
